---- MODULE Spec2Model ----
(***************************************************************************)
(* The MQTT client protocol engine of pi_net (mqtt_tmp/src/client.rs):     *)
(* ClientNodeImpl, the operations of `impl Client for ClientNode`, the     *)
(* pending-action queue (handle_slot / set_stream), the keep-alive timer   *)
(* (ping) and the packet dispatcher (handle_recv and the recv_* handlers). *)
(*                                                                         *)
(* One API call or one callback of the transport / timer service is one    *)
(* step.  A step is computed by an operator named after the Rust function  *)
(* it models; the operator maps a "world" record (the client plus the      *)
(* transport and timer services it talks to) to the world after the call.  *)
(***************************************************************************)
EXTENDS Integers, Sequences, FiniteSets, TLC

\* ------------------------------------------------------------ bounds
\* longest pending-action queue (socket_handlers) the model explores
MaxQueue == 2
\* most receive requests outstanding at once
MaxRecvs == 2
\* how far an identifier counter is followed from each value in StartIds
MaxIdAdvance == 2

\* ------------------------------------------------------------ program constants
\* u16::max_value()
U16Max == 65535
\* number of values of a u16: arithmetic on u16 is modulo this in a
\* release build and panics on overflow in a debug build
U16Mod == U16Max + 1

\* Option::None
None == "None"

\* ------------------------------------------------------------ topics
\* A topic string is modelled by its levels, the result of split('/').
\* "a+" stands for a level that mixes a wildcard character with others.
WildLevels == {"+", "#"}
BadLevels == {"a+"}

\* mqtt3::TopicPath::from_str(name).is_ok(): every level is well formed and
\* '#', if present, is the last level.
TopicParses(name) ==
    /\ Len(name) >= 1
    /\ \A i \in 1..Len(name) : name[i] \notin BadLevels
    /\ \A i \in 1..Len(name) : name[i] = "#" => i = Len(name)

\* TopicPath.wildcards of a name that parses
TopicWildcards(name) == \E i \in 1..Len(name) : name[i] \in WildLevels

\* TopicPath::is_match(filter, topic) for a wildcard-free topic: '+' matches
\* exactly one level, '#' matches all remaining levels.
RECURSIVE IsMatchFrom(_, _, _)
IsMatchFrom(filter, topic, i) ==
    IF i > Len(filter) THEN i > Len(topic)
    ELSE IF filter[i] = "#" THEN TRUE
    ELSE IF i > Len(topic) THEN FALSE
    ELSE IF filter[i] = "+" \/ filter[i] = topic[i]
         THEN IsMatchFrom(filter, topic, i + 1)
         ELSE FALSE

is_match(filter, topic) == IsMatchFrom(filter, topic, 1)

\* fn is_topic_contains_wildcards(name) -> Result<bool>:
\* ok = FALSE stands for Err(InvalidTopic), else wildcards is the Ok value.
is_topic_contains_wildcards(name) ==
    IF TopicParses(name)
    THEN [ok |-> TRUE, wildcards |-> TopicWildcards(name)]
    ELSE [ok |-> FALSE, wildcards |-> FALSE]

\* ------------------------------------------------------------ maps
\* FnvHashMap: new / insert / remove
EmptyMap == [k \in {} |-> None]
MapInsert(m, k, v) == [x \in (DOMAIN m) \cup {k} |-> IF x = k THEN v ELSE m[x]]
MapRemove(m, k) == [x \in (DOMAIN m) \ {k} |-> m[x]]

\* ------------------------------------------------------------ state
VARIABLES
    node,             \* ClientNodeImpl, the value behind the Mutex
    poisoned,         \* the Mutex is poisoned: a thread panicked holding it
    overflow_checks,  \* build profile: TRUE = debug (overflow panics)
    timers,           \* per stream, the pending "client_ping" timer: the
                      \* socket its callback captured, or None
    recvs,            \* per stream, the number of outstanding receive requests
    out,              \* packets sent by the last step: [socket, packet]
    calls,            \* callbacks invoked by the last step
    last,             \* the last step: operation, arguments, result
    lock,             \* the thread that holds the Mutex for good (it will
                      \* never unlock), or None: a lock section that ends is
                      \* one step, and leaves the Mutex free
    pc,               \* per calling thread, where it is in its call
    hist              \* the order of reservations, of accepted actions and
                      \* of the packets written to the transports

vars == <<node, poisoned, overflow_checks, timers, recvs, out, calls, last,
          lock, pc, hist>>

\* ClientNode::new()
NewNode ==
    [ socket          |-> None,
      stream          |-> None,
      connect_func    |-> None,
      close_func      |-> None,
      curr_sub_id     |-> 0,
      curr_unsub_id   |-> 0,
      sub_map         |-> EmptyMap,
      attributes      |-> EmptyMap,
      topics          |-> EmptyMap,
      topic_patterns  |-> EmptyMap,
      socket_handlers |-> << >>,
      keep_alive      |-> 0 ]

\* The world a call starts in: the current state, nothing sent or invoked yet.
World ==
    [ node |-> node, poisoned |-> poisoned, overflow_checks |-> overflow_checks,
      timers |-> timers, recvs |-> recvs,
      out |-> << >>, calls |-> << >>, ret |-> "Ok", value |-> None ]

\* ------------------------------------------------------------ collaborators
\* util::send_*(socket, ...): one packet written to the socket
Send(w, socket, packet) ==
    [w EXCEPT !.out = Append(@, [socket |-> socket, packet |-> packet])]

\* util::recv_mqtt_packet(stream, callback): one receive request on the stream
recv_mqtt_packet(w, stream) ==
    [w EXCEPT !.recvs[stream] = @ + 1]

\* NetTimers::set_timeout("client_ping", keep_alive, callback) on the timer
\* service of the stream: the timer of that name is (re)scheduled, with a
\* callback that captured the Option<Socket> read by ping
set_timeout(w, stream, socket) ==
    [w EXCEPT !.timers[stream] = socket]

\* a caller-supplied callback or handler is invoked
Invoke(w, call) ==
    [w EXCEPT !.calls = Append(@, call)]

\* ------------------------------------------------------------ deferred actions
\* fn handle_connect: CONNECT is sent and the receive loop is started
handle_connect(w, socket, stream, keep_alive, last_will) ==
    recv_mqtt_packet(
        Send(w, socket, [type |-> "CONNECT", keep_alive |-> keep_alive,
                         will |-> last_will]),
        stream)

\* The boxed FnOnce(&Socket, Stream) closures built by connect, subscribe,
\* unsubscribe, disconnect and publish, applied to a socket and a stream.
CallFunc(w, func, socket, stream) ==
    CASE func.kind = "connect" ->
            handle_connect(w, socket, stream, func.keep_alive, func.will)
      [] func.kind = "subscribe" ->
            Send(w, socket, [type |-> "SUBSCRIBE", pid |-> func.curr_id,
                             topics |-> func.topics])
      [] func.kind = "unsubscribe" ->
            Send(w, socket, [type |-> "UNSUBSCRIBE", pid |-> func.curr_id,
                             topics |-> func.topics])
      [] func.kind = "disconnect" ->
            Send(w, socket, [type |-> "DISCONNECT"])
      [] func.kind = "publish" ->
            Send(w, socket, [type |-> "PUBLISH", retain |-> func.retain,
                             qos |-> 0, topic |-> func.topic,
                             payload |-> func.payload])

\* a ping that arms the timer whatever keep_alive is
ping_unconditional(w) ==
    set_timeout(w, w.node.stream, w.node.socket)

\* ClientNode::ping: arms the keep-alive timer when keep_alive > 0, on the
\* timers of node.stream (get_timers)
ping(w) ==
    IF w.node.keep_alive > 0
    THEN set_timeout(w, w.node.stream, w.node.socket)
    ELSE w

\* a handle_slot that runs the action and leaves the keep-alive alone
handle_slot_no_ping(w, func) ==
    IF w.node.socket = None
    THEN [w EXCEPT !.node.socket_handlers = Append(@, func)]
    ELSE CallFunc(w, func, w.node.socket, w.node.stream)

\* fn handle_slot: queue the action while there is no socket, else run it
\* on the attached socket and call ping
handle_slot(w, func) ==
    IF w.node.socket = None
    THEN [w EXCEPT !.node.socket_handlers = Append(@, func)]
    ELSE ping(CallFunc(w, func, w.node.socket, w.node.stream))

\* ------------------------------------------------------------ Client API
\* a drain that pops from the back of the queue
RECURSIVE DrainHandlersLifo(_, _, _)
DrainHandlersLifo(w, socket, stream) ==
    IF w.node.socket_handlers = << >> THEN w
    ELSE LET q == w.node.socket_handlers
             func == q[Len(q)]
             w1 == [w EXCEPT !.node.socket_handlers = SubSeq(q, 1, Len(q) - 1)]
         IN DrainHandlersLifo(CallFunc(w1, func, socket, stream), socket, stream)

\* set_stream's while loop: pop_front and run, until the queue is empty
RECURSIVE DrainHandlers(_, _, _)
DrainHandlers(w, socket, stream) ==
    IF w.node.socket_handlers = << >> THEN w
    ELSE LET func == Head(w.node.socket_handlers)
             w1 == [w EXCEPT !.node.socket_handlers = Tail(@)]
         IN DrainHandlers(CallFunc(w1, func, socket, stream), socket, stream)

\* fn set_stream(&self, socket, stream)
set_stream(w, socket, stream) ==
    LET w1 == DrainHandlers(w, socket, stream)
    IN [w1 EXCEPT !.node.socket = socket, !.node.stream = stream]

\* fn connect(&self, keep_alive, will, close_func, connect_func)
connect(w, keep_alive, will, close_func, connect_func) ==
    LET w1 == [w EXCEPT !.node.close_func = close_func,
                        !.node.connect_func = connect_func,
                        !.node.keep_alive = keep_alive]
    IN handle_slot(w1, [kind |-> "connect", keep_alive |-> keep_alive,
                        will |-> will])

\* a parameter check that looks at the first name only
TopicsHaveHandlersFirstOnly(n, names) ==
    \A i \in 1..Len(names) :
        i = 1 =>
        LET r == is_topic_contains_wildcards(names[i])
        IN /\ r.ok
           /\ IF r.wildcards THEN names[i] \in DOMAIN n.topic_patterns
                             ELSE names[i] \in DOMAIN n.topics

\* the parameter check of subscribe and unsubscribe: every name parses and
\* is a key of the map its wildcards flag selects
TopicsHaveHandlers(n, names) ==
    \A i \in 1..Len(names) :
        LET r == is_topic_contains_wildcards(names[i])
        IN /\ r.ok
           /\ IF r.wildcards THEN names[i] \in DOMAIN n.topic_patterns
                             ELSE names[i] \in DOMAIN n.topics

\* a subscribe key without the + 1
SubKeyEven(id) == (2 * id) % U16Mod

\* (2 * curr_id + 1) as usize and (1 + id * 2) as usize, on a u16
SubKey(id) == (2 * id + 1) % U16Mod
\* (2 * curr_id) as usize and (id * 2) as usize, on a u16
UnsubKey(id) == (2 * id) % U16Mod
\* 2 * id does not fit a u16: a debug build panics here
KeyOverflows(id) == 2 * id > U16Max

\* a panic while the lock is held: the Mutex is poisoned
PanicLocked(w) == [w EXCEPT !.poisoned = TRUE, !.ret = "panic"]

\* a counter that saturates at u16::max_value()
NextIdSaturating(id) == IF id < U16Max THEN id + 1 ELSE id

\* curr_sub_id / curr_unsub_id: += 1 below u16::max_value(), else 0
NextId(id) == IF id < U16Max THEN id + 1 ELSE 0

TopicNames(topics) == [i \in 1..Len(topics) |-> topics[i][1]]

\* fn subscribe(&self, topics: Vec<(String, QoS)>, resp_func)
subscribe(w, topics, resp_func) ==
    IF ~TopicsHaveHandlers(w.node, TopicNames(topics))
    THEN [w EXCEPT !.ret = "Err"]
    ELSE IF w.overflow_checks /\ KeyOverflows(w.node.curr_sub_id)
    THEN PanicLocked(w)
    ELSE LET curr_id == w.node.curr_sub_id
             w1 == [w EXCEPT
                      !.node.sub_map = MapInsert(@, SubKey(curr_id), resp_func),
                      !.node.curr_sub_id = NextId(@)]
         IN handle_slot(w1, [kind |-> "subscribe", curr_id |-> curr_id,
                             topics |-> topics])

\* fn unsubscribe(&self, topics: Vec<String>, resp_func)
unsubscribe(w, topics, resp_func) ==
    IF ~TopicsHaveHandlers(w.node, topics)
    THEN [w EXCEPT !.ret = "Err"]
    ELSE IF w.overflow_checks /\ KeyOverflows(w.node.curr_unsub_id)
    THEN PanicLocked(w)
    ELSE LET curr_id == w.node.curr_unsub_id
             w1 == [w EXCEPT
                      !.node.sub_map = MapInsert(@, UnsubKey(curr_id), resp_func),
                      !.node.curr_unsub_id = NextId(@)]
         IN handle_slot(w1, [kind |-> "unsubscribe", curr_id |-> curr_id,
                             topics |-> topics])

\* a disconnect that forgets socket_handlers.clear()
disconnect_keeps_queue(w) ==
    LET w1 == handle_slot(w, [kind |-> "disconnect"])
    IN [w1 EXCEPT !.node.connect_func = None,
                  !.node.close_func = None,
                  !.node.curr_sub_id = 0,
                  !.node.curr_unsub_id = 0,
                  !.node.sub_map = EmptyMap,
                  !.node.attributes = EmptyMap,
                  !.node.topics = EmptyMap,
                  !.node.topic_patterns = EmptyMap]

\* a disconnect that forgets attributes.clear()
disconnect_keeps_attributes(w) ==
    LET w1 == handle_slot(w, [kind |-> "disconnect"])
    IN [w1 EXCEPT !.node.connect_func = None,
                  !.node.close_func = None,
                  !.node.curr_sub_id = 0,
                  !.node.curr_unsub_id = 0,
                  !.node.sub_map = EmptyMap,
                  !.node.topics = EmptyMap,
                  !.node.topic_patterns = EmptyMap,
                  !.node.socket_handlers = << >>]

\* fn disconnect(&self): the DISCONNECT action goes through handle_slot,
\* then the data structures are cleared
disconnect(w) ==
    LET w1 == handle_slot(w, [kind |-> "disconnect"])
    IN [w1 EXCEPT !.node.connect_func = None,
                  !.node.close_func = None,
                  !.node.curr_sub_id = 0,
                  !.node.curr_unsub_id = 0,
                  !.node.sub_map = EmptyMap,
                  !.node.attributes = EmptyMap,
                  !.node.topics = EmptyMap,
                  !.node.topic_patterns = EmptyMap,
                  !.node.socket_handlers = << >>]

\* a publish that rejects only names that do not parse
publish_wildcards_allowed(w, retain, qos, topic, payload) ==
    IF ~is_topic_contains_wildcards(topic).ok
    THEN [w EXCEPT !.ret = "Err"]
    ELSE handle_slot(w, [kind |-> "publish", retain |-> retain,
                         topic |-> topic, payload |-> payload])

\* fn publish(&self, retain, _qos, topic, payload)
publish(w, retain, qos, topic, payload) ==
    LET r == is_topic_contains_wildcards(topic)
    IN IF ~r.ok \/ r.wildcards
       THEN [w EXCEPT !.ret = "Err"]
       ELSE handle_slot(w, [kind |-> "publish", retain |-> retain,
                            topic |-> topic, payload |-> payload])

\* a set_topic_handler that inserts into topics whatever the name holds
set_topic_handler_exact_only(w, name, handler) ==
    IF ~TopicParses(name)
    THEN [w EXCEPT !.ret = "Err"]
    ELSE [w EXCEPT !.node.topics =
                      MapInsert(@, name, [topic |-> name, func |-> handler])]

\* fn set_topic_handler(&self, name, handler)
set_topic_handler(w, name, handler) ==
    IF ~TopicParses(name)
    THEN [w EXCEPT !.ret = "Err"]
    ELSE LET data == [topic |-> name, func |-> handler]
         IN IF TopicWildcards(name)
            THEN [w EXCEPT !.node.topic_patterns = MapInsert(@, name, data)]
            ELSE [w EXCEPT !.node.topics = MapInsert(@, name, data)]

\* fn remove_topic_handler(&self, name)
remove_topic_handler(w, name) ==
    IF ~TopicParses(name)
    THEN [w EXCEPT !.ret = "Err"]
    ELSE IF TopicWildcards(name)
         THEN [w EXCEPT !.node.topic_patterns = MapRemove(@, name)]
         ELSE [w EXCEPT !.node.topics = MapRemove(@, name)]

\* an add_attribute that inserts without looking for the name
add_attribute_overwrites(w, name, value) ==
    [w EXCEPT !.node.attributes = MapInsert(@, name, value)]

\* fn add_attribute(&self, name, value)
add_attribute(w, name, value) ==
    IF name \in DOMAIN w.node.attributes
    THEN w
    ELSE [w EXCEPT !.node.attributes = MapInsert(@, name, value)]

\* fn remove_attribute(&self, name)
remove_attribute(w, name) ==
    [w EXCEPT !.node.attributes = MapRemove(@, name)]

\* fn get_attribute(&self, name) -> Option<Arc<Vec<u8>>>
get_attribute(w, name) ==
    IF name \in DOMAIN w.node.attributes
    THEN [w EXCEPT !.value = w.node.attributes[name]]
    ELSE [w EXCEPT !.value = None]

\* ------------------------------------------------------------ packet dispatcher
\* a recv_connect_ack that calls connect_func and leaves it in place
recv_connect_ack_keeps_func(w, code) ==
    LET r == IF code = "Accepted" THEN "Ok" ELSE "Err"
        func == w.node.connect_func
    IN IF func # None THEN Invoke(w, [func |-> func, arg |-> r]) ELSE w

\* fn recv_connect_ack: connect_func.take() is called with the result
recv_connect_ack(w, code) ==
    LET r == IF code = "Accepted" THEN "Ok" ELSE "Err"
        func == w.node.connect_func
    IN IF func # None
       THEN Invoke([w EXCEPT !.node.connect_func = None],
                   [func |-> func, arg |-> r])
       ELSE w

\* the two ack handlers: sub_map.remove(&id), and the callback if there is one
ResolveKey(w, key) ==
    IF key \in DOMAIN w.node.sub_map
    THEN LET func == w.node.sub_map[key]
             w1 == [w EXCEPT !.node.sub_map = MapRemove(@, key)]
         IN IF func # None THEN Invoke(w1, [func |-> func, arg |-> "Ok"])
                           ELSE w1
    ELSE w

\* fn recv_sub_ack(node, ack)
recv_sub_ack(w, id) ==
    IF w.overflow_checks /\ KeyOverflows(id)
    THEN PanicLocked(w)
    ELSE ResolveKey(w, SubKey(id))

\* fn recv_unsub_ack(node, id)
recv_unsub_ack(w, id) ==
    IF w.overflow_checks /\ KeyOverflows(id)
    THEN PanicLocked(w)
    ELSE ResolveKey(w, UnsubKey(id))

\* a loop over topic_patterns that stops at the first match
RECURSIVE InvokePatternsFirstMatch(_, _, _, _)
InvokePatternsFirstMatch(w, order, topic, payload) ==
    IF order = << >> THEN w
    ELSE LET data == w.node.topic_patterns[Head(order)]
         IN IF is_match(data.topic, topic)
            THEN Invoke(w, [map |-> "topic_patterns", key |-> Head(order),
                            func |-> data.func, socket |-> w.node.socket,
                            payload |-> payload])
            ELSE InvokePatternsFirstMatch(w, Tail(order), topic, payload)

\* the for loop of recv_publish over topic_patterns, in iteration order
RECURSIVE InvokePatterns(_, _, _, _)
InvokePatterns(w, order, topic, payload) ==
    IF order = << >> THEN w
    ELSE LET data == w.node.topic_patterns[Head(order)]
             w1 == IF is_match(data.topic, topic)
                   THEN Invoke(w, [map |-> "topic_patterns", key |-> Head(order),
                                   func |-> data.func, socket |-> w.node.socket,
                                   payload |-> payload])
                   ELSE w
         IN InvokePatterns(w1, Tail(order), topic, payload)

\* a recv_publish that dispatches through the patterns only
recv_publish_patterns_only(w, pkt, order) ==
    IF ~TopicParses(pkt.topic_name) THEN w
    ELSE InvokePatterns(w, order, pkt.topic_name, pkt.payload)

\* fn recv_publish(node, publish: mqtt3::Publish); order is the iteration order of the
\* topic_patterns hash map
recv_publish(w, pkt, order) ==
    IF ~TopicParses(pkt.topic_name) THEN w
    ELSE LET name == pkt.topic_name
             w1 == IF name \in DOMAIN w.node.topics
                   THEN Invoke(w, [map |-> "topics", key |-> name,
                                   func |-> w.node.topics[name].func,
                                   socket |-> w.node.socket,
                                   payload |-> pkt.payload])
                   ELSE w
         IN InvokePatterns(w1, order, name, pkt.payload)

\* fn recv_pingresp: nothing
recv_pingresp(w) == w

\* the match of handle_recv on an Ok packet
Dispatch(w, packet, order) ==
    CASE packet.type = "Connack"  -> recv_connect_ack(w, packet.code)
      [] packet.type = "Suback"   -> recv_sub_ack(w, packet.pid)
      [] packet.type = "Unsuback" -> recv_unsub_ack(w, packet.pid)
      [] packet.type = "Publish"  -> recv_publish(w, packet, order)
      [] packet.type = "Pingresp" -> recv_pingresp(w)
      [] OTHER -> [w EXCEPT !.ret = "panic"]

\* fn handle_recv(node, stream, packet): an Ok packet is dispatched; unless
\* that panicked, the next receive request is issued
handle_recv(w, stream, packet, order) ==
    LET w1 == IF packet.type = "Err" THEN w ELSE Dispatch(w, packet, order)
    IN IF w1.ret = "panic" THEN w1 ELSE recv_mqtt_packet(w1, stream)

\* a timer callback that sends PINGREQ and does not call ping again
TimerCallbackOnce(w, socket) ==
    Send(w, socket, [type |-> "PINGREQ"])

\* the timer callback built by ping: PINGREQ on the captured socket, ping again
TimerCallback(w, socket) ==
    ping(Send(w, socket, [type |-> "PINGREQ"]))

\* ------------------------------------------------------------ inputs
Sockets == {"s1", "s2"}
\* topic names: exact, wildcard filters, and names that do not parse
ExactNames == {<<"a">>, <<"a", "b">>}
PatternNames == {<<"a", "+">>, <<"+">>, <<"#">>}
BadNames == {<<"a+">>, <<"#", "a">>}
Handlers == {"f", "g"}
Payloads == {"p1", "p2"}
\* identifier counters the model starts from: a fresh client, and clients
\* that have issued 32767 and 65535 subscribes (unsubscribes) before
StartIds == {0, 32767, U16Max}
IdsInScope ==
    {(s + d) % U16Mod : s \in StartIds, d \in 0..MaxIdAdvance}

\* ------------------------------------------------------------ steps
\* the arguments of a call without arguments (every `arg` is a record)
NoArg == [none |-> None]

\* the threads that call into the client concurrently, one call each
Callers == {"t1", "t2", "t3"}
\* a thread that is not inside a call
Idle == [at |-> "idle", op |-> "none", func |-> NoArg, socket |-> None]
\* nothing reserved, accepted or written yet
NoHist == [reserved |-> << >>, accepted |-> << >>, wire |-> << >>]

\* The world after a call becomes the state; l names the call in `last`.
\* A call gets that far only if it found the Mutex free.
Step(w, l) ==
    /\ lock = None
    /\ Len(w.node.socket_handlers) <= MaxQueue
    /\ \A s \in Sockets : w.recvs[s] <= MaxRecvs
    /\ w.node.curr_sub_id \in IdsInScope
    /\ w.node.curr_unsub_id \in IdsInScope
    /\ node' = w.node
    /\ poisoned' = w.poisoned
    /\ timers' = w.timers
    /\ recvs' = w.recvs
    /\ out' = w.out
    /\ calls' = w.calls
    /\ last' = [op |-> l.op, arg |-> l.arg, ret |-> w.ret, value |-> w.value,
                tick |-> 1 - last.tick]
    /\ UNCHANGED <<overflow_checks, lock, pc, hist>>

\* A thread that calls into a poisoned Mutex panics at lock().unwrap() and
\* changes nothing, so no call is followed once the Mutex is poisoned.
SetStream(s) ==
    /\ ~poisoned
    /\ Step(set_stream(World, s, s), [op |-> "set_stream", arg |-> [socket |-> s]])

Connect(keep_alive, will, close_func, connect_func) ==
    /\ ~poisoned
    /\ Step(connect(World, keep_alive, will, close_func, connect_func),
            [op |-> "connect", arg |-> [keep_alive |-> keep_alive, will |-> will,
                                        close_func |-> close_func,
                                        connect_func |-> connect_func]])

Subscribe(topics, resp_func) ==
    /\ ~poisoned
    /\ Step(subscribe(World, topics, resp_func),
            [op |-> "subscribe", arg |-> [topics |-> topics, resp_func |-> resp_func]])

Unsubscribe(topics, resp_func) ==
    /\ ~poisoned
    /\ Step(unsubscribe(World, topics, resp_func),
            [op |-> "unsubscribe", arg |-> [topics |-> topics, resp_func |-> resp_func]])

Disconnect ==
    /\ ~poisoned
    /\ Step(disconnect(World), [op |-> "disconnect", arg |-> NoArg])

Publish(retain, qos, topic, payload) ==
    /\ ~poisoned
    /\ Step(publish(World, retain, qos, topic, payload),
            [op |-> "publish", arg |-> [retain |-> retain, qos |-> qos,
                                        topic |-> topic, payload |-> payload]])

SetTopicHandler(name, handler) ==
    /\ ~poisoned
    /\ Step(set_topic_handler(World, name, handler),
            [op |-> "set_topic_handler", arg |-> [name |-> name, handler |-> handler]])

RemoveTopicHandler(name) ==
    /\ ~poisoned
    /\ Step(remove_topic_handler(World, name),
            [op |-> "remove_topic_handler", arg |-> [name |-> name]])

AddAttribute(name, value) ==
    /\ ~poisoned
    /\ Step(add_attribute(World, name, value),
            [op |-> "add_attribute", arg |-> [name |-> name, value |-> value]])

RemoveAttribute(name) ==
    /\ ~poisoned
    /\ Step(remove_attribute(World, name),
            [op |-> "remove_attribute", arg |-> [name |-> name]])

GetAttribute(name) ==
    /\ ~poisoned
    /\ Step(get_attribute(World, name),
            [op |-> "get_attribute", arg |-> [name |-> name]])

\* the transport completes an outstanding receive request of the stream
\* with packet
Recv(stream, packet, order) ==
    /\ ~poisoned
    /\ recvs[stream] > 0
    /\ Step(handle_recv([World EXCEPT !.recvs[stream] = @ - 1],
                        stream, packet, order),
            [op |-> "recv", arg |-> [stream |-> stream, packet |-> packet]])

\* the timer service of the stream fires its pending keep-alive timer
TimerFire(stream) ==
    /\ ~poisoned
    /\ timers[stream] # None
    /\ Step(TimerCallback([World EXCEPT !.timers[stream] = None], timers[stream]),
            [op |-> "timer", arg |-> [stream |-> stream, socket |-> timers[stream]]])

\* the iteration orders of a hash map with key set S
RECURSIVE Orders(_)
Orders(S) ==
    IF S = {} THEN {<< >>}
    ELSE UNION {{<<k>> \o o : o \in Orders(S \ {k})} : k \in S}

\* ------------------------------------------------------------ specifications
\* the client right after ClientNode::new()
InitFresh ==
    /\ node = NewNode
    /\ poisoned = FALSE
    /\ overflow_checks \in BOOLEAN
    /\ timers = [s \in Sockets |-> None]
    /\ recvs = [s \in Sockets |-> 0]
    /\ out = << >>
    /\ calls = << >>
    /\ last = [op |-> "new", arg |-> NoArg, ret |-> "Ok", value |-> None, tick |-> 0]
    /\ lock = None
    /\ pc = [t \in Callers |-> Idle]
    /\ hist = NoHist

\* Spec: the life cycle of one client driven by one application thread:
\* handlers are registered, actions are issued before and after the
\* transport is attached, the client is disconnected and attached again.
SubTopics == << <<<<"a">>, 1>>, <<<<"a", "+">>, 0>> >>
UnsubTopics == << <<"a">>, <<"a", "+">> >>

Init == InitFresh /\ overflow_checks = FALSE

Next ==
    \/ \E s \in Sockets : SetStream(s)
    \/ Connect(2, "will", "closed", "connected")
    \/ Subscribe(SubTopics, "r1")
    \/ Unsubscribe(UnsubTopics, "r2")
    \/ Disconnect
    \/ \E t \in {<<"a">>, <<"a", "+">>, <<"a+">>} : Publish(FALSE, 1, t, "p1")
    \/ \E n \in {<<"a">>, <<"a", "+">>} : SetTopicHandler(n, "f")
    \/ AddAttribute("k", "v1")
    \/ \E s \in Sockets : TimerFire(s)

Spec == Init /\ [][Next]_vars

\* ------------------------------------------------------------ claims under Spec
\* the packet a deferred action is expected to put on the wire
ExpectedPacket(func) ==
    CASE func.kind = "connect" ->
            [type |-> "CONNECT", keep_alive |-> func.keep_alive, will |-> func.will]
      [] func.kind = "subscribe" ->
            [type |-> "SUBSCRIBE", pid |-> func.curr_id, topics |-> func.topics]
      [] func.kind = "unsubscribe" ->
            [type |-> "UNSUBSCRIBE", pid |-> func.curr_id, topics |-> func.topics]
      [] func.kind = "publish" ->
            [type |-> "PUBLISH", retain |-> func.retain, qos |-> 0,
             topic |-> func.topic, payload |-> func.payload]
      [] func.kind = "disconnect" ->
            [type |-> "DISCONNECT"]

\* nothing but `last` differs between the state before and after the step
NothingChanged ==
    /\ node' = node
    /\ poisoned' = poisoned
    /\ timers' = timers
    /\ recvs' = recvs
    /\ out' = << >>
    /\ calls' = << >>

\* C1: a set_stream on a client without a transport runs every buffered
\* action against the new socket exactly once, in the order the actions
\* were submitted (the order of the queue), and leaves the queue empty.
C1_ReplayInOrder ==
    [][ (last'.op = "set_stream" /\ node.socket = None) =>
          /\ Len(out') = Len(node.socket_handlers)
          /\ \A i \in 1..Len(node.socket_handlers) :
                out'[i] = [socket |-> last'.arg.socket,
                           packet |-> ExpectedPacket(node.socket_handlers[i])]
          /\ node'.socket_handlers = << >> ]_vars

\* a set_stream has replayed two different buffered actions
C1_Witness ==
    /\ last.op = "set_stream"
    /\ Len(out) >= 2
    /\ out[1].packet.type # out[2].packet.type

\* some name of the list is a key of neither topic map
SomeTopicUnregistered(n, names) ==
    \E i \in 1..Len(names) :
        names[i] \notin (DOMAIN n.topics) \cup (DOMAIN n.topic_patterns)

\* C2: subscribe and unsubscribe with a topic that has no registered handler
\* return an error and change nothing: nothing is sent or queued, the
\* counters and the correlation table keep their value, with or without a
\* transport.
C2_UnknownTopicRejected ==
    [][ /\ (last'.op = "subscribe"
            /\ SomeTopicUnregistered(node, TopicNames(last'.arg.topics)))
           => (last'.ret = "Err" /\ NothingChanged)
        /\ (last'.op = "unsubscribe"
            /\ SomeTopicUnregistered(node, last'.arg.topics))
           => (last'.ret = "Err" /\ NothingChanged) ]_vars

\* a subscribe on an attached client failed on its second topic, the first
\* one having a handler
C2_Witness ==
    /\ last.op = "subscribe"
    /\ last.ret = "Err"
    /\ node.socket # None
    /\ last.arg.topics[1][1] \in DOMAIN node.topics
    /\ last.arg.topics[2][1] \notin DOMAIN node.topic_patterns

\* C3: publish with a topic that holds a wildcard, or that does not parse,
\* returns an error and neither sends nor queues anything; the client state
\* is unchanged.
C3_PublishTopicRejected ==
    [][ (last'.op = "publish"
         /\ (~TopicParses(last'.arg.topic) \/ TopicWildcards(last'.arg.topic)))
        => (last'.ret = "Err" /\ NothingChanged) ]_vars

\* a publish to a wildcard topic was rejected on an attached client
C3_Witness ==
    /\ last.op = "publish"
    /\ last.ret = "Err"
    /\ node.socket # None
    /\ TopicParses(last.arg.topic)
    /\ TopicWildcards(last.arg.topic)

\* what disconnect is to leave empty, zero or absent
Cleared(n) ==
    /\ DOMAIN n.topics = {}
    /\ DOMAIN n.topic_patterns = {}
    /\ DOMAIN n.attributes = {}
    /\ DOMAIN n.sub_map = {}
    /\ n.socket_handlers = << >>
    /\ n.curr_sub_id = 0
    /\ n.curr_unsub_id = 0
    /\ n.connect_func = None
    /\ n.close_func = None

\* C6: disconnect leaves both topic maps, the attributes, the correlation
\* table and the queue empty, both counters 0 and both callbacks absent, and
\* a set_stream that follows it finds and leaves them so.
C6_DisconnectClears ==
    [][ /\ last'.op = "disconnect" => Cleared(node')
        /\ (last.op = "disconnect" /\ last'.op = "set_stream")
           => Cleared(node') ]_vars

\* a disconnect has run on an attached client on which connect had stored
\* its callbacks and keep-alive
C6_Witness ==
    /\ last.op = "disconnect"
    /\ node.socket # None
    /\ node.keep_alive > 0
    /\ out # << >>
    /\ Cleared(node)

\* C7: after disconnect the client equals a freshly created one, the
\* transport absent and keep_alive 0 included.
C7_DisconnectYieldsFreshClient ==
    last.op = "disconnect" => node = NewNode

\* C8: a disconnect issued directly after a disconnect changes no client
\* state, sends no packet and arms no timer.
C8_SecondDisconnectIsNoOp ==
    [][ (last.op = "disconnect" /\ last'.op = "disconnect") =>
          /\ node' = node
          /\ out' = << >>
          /\ timers' = timers ]_vars

\* ------------------------------------------------------------ SpecDispatch
\* SpecDispatch: handlers are registered and removed on a client whose
\* receive loop runs, and the broker delivers packets to it.
PublishPackets ==
    { [type |-> "Publish", topic_name |-> <<"a">>, payload |-> "p1"],
      [type |-> "Publish", topic_name |-> <<"a", "b">>, payload |-> "p2"],
      [type |-> "Publish", topic_name |-> <<"b">>, payload |-> "p1"],
      [type |-> "Publish", topic_name |-> <<"a+">>, payload |-> "p2"] }
ControlPackets ==
    { [type |-> "Connack", code |-> "Accepted"],
      [type |-> "Connack", code |-> "NotAuthorized"],
      [type |-> "Pingresp"],
      [type |-> "Pubrel"],
      [type |-> "Err"] }

InitDispatch == InitFresh /\ overflow_checks = FALSE

NextDispatch ==
    \/ Connect(0, None, None, "connected")
    \/ SetStream("s1")
    \/ \E n \in ExactNames \cup BadNames, h \in Handlers : SetTopicHandler(n, h)
    \/ \E n \in PatternNames : SetTopicHandler(n, "g")
    \/ \E n \in ExactNames \cup PatternNames \cup BadNames : RemoveTopicHandler(n)
    \/ \E p \in PublishPackets, o \in Orders(DOMAIN node.topic_patterns) :
          Recv("s1", p, o)
    \/ \E p \in ControlPackets : Recv("s1", p, << >>)
    \/ Disconnect

SpecDispatch == InitDispatch /\ [][NextDispatch]_vars

\* the step delivered a Publish whose topic is a wildcard-free topic name
PublishDelivered ==
    /\ last'.op = "recv"
    /\ last'.arg.packet.type = "Publish"
    /\ TopicParses(last'.arg.packet.topic_name)
    /\ ~TopicWildcards(last'.arg.packet.topic_name)

\* the invocations in cs of the handler bound to key in map
CallsOf(cs, map, key) ==
    {i \in 1..Len(cs) : cs[i].map = map /\ cs[i].key = key}

\* C4: set_topic_handler(t, f) with a wildcard-free t binds f to t in the
\* exact map; an inbound Publish to t invokes the handler bound to t exactly
\* once, with the payload of the publish, and invokes the handler bound to
\* no other exact name.
C4_ExactDispatch ==
    [][ /\ (last'.op = "set_topic_handler" /\ TopicParses(last'.arg.name)
            /\ ~TopicWildcards(last'.arg.name))
           => /\ last'.arg.name \in DOMAIN node'.topics
              /\ node'.topics[last'.arg.name].func = last'.arg.handler
        /\ PublishDelivered =>
             \A e \in DOMAIN node.topics :
                IF e = last'.arg.packet.topic_name
                THEN /\ Cardinality(CallsOf(calls', "topics", e)) = 1
                     /\ \A i \in CallsOf(calls', "topics", e) :
                          /\ calls'[i].func = node.topics[e].func
                          /\ calls'[i].payload = last'.arg.packet.payload
                ELSE CallsOf(calls', "topics", e) = {} ]_vars

\* a publish to "a" ran the handler of "a" while "a/b" had a handler too
C4_Witness ==
    /\ last.op = "recv"
    /\ last.arg.packet.type = "Publish"
    /\ last.arg.packet.topic_name = <<"a">>
    /\ DOMAIN node.topics = ExactNames
    /\ Cardinality(CallsOf(calls, "topics", <<"a">>)) = 1

\* MQTT wildcard rules, level by level: '+' stands for one level; a filter
\* ending in '#' matches every topic that agrees with it before the '#'
MqttMatches(filter, topic) ==
    LET n == Len(filter)
        LevelsAgree(k) ==
            \A i \in 1..k : filter[i] = "+" \/ filter[i] = topic[i]
    IN IF filter[n] = "#"
       THEN Len(topic) >= n - 1 /\ LevelsAgree(n - 1)
       ELSE Len(topic) = n /\ LevelsAgree(n)

\* C5: an inbound Publish to t invokes the handler of every entry of
\* topic_patterns whose filter matches t exactly once and of no other entry;
\* with the exact lookup these are all the invocations of the publish.
C5_PatternDispatch ==
    [][ PublishDelivered =>
          LET t == last'.arg.packet.topic_name
              matching == {f \in DOMAIN node.topic_patterns : MqttMatches(f, t)}
          IN /\ \A f \in DOMAIN node.topic_patterns :
                   Cardinality(CallsOf(calls', "topic_patterns", f))
                     = IF f \in matching THEN 1 ELSE 0
             /\ \A i \in 1..Len(calls') :
                   calls'[i].map = "topic_patterns" =>
                     /\ calls'[i].key \in matching
                     /\ calls'[i].func = node.topic_patterns[calls'[i].key].func
                     /\ calls'[i].payload = last'.arg.packet.payload
             /\ Len(calls') = Cardinality(matching)
                               + (IF t \in DOMAIN node.topics THEN 1 ELSE 0) ]_vars

\* a publish ran an exact handler and two pattern handlers, and left a
\* registered pattern handler alone
C5_Witness ==
    /\ last.op = "recv"
    /\ last.arg.packet.type = "Publish"
    /\ Len(calls) = 3
    /\ DOMAIN node.topic_patterns = PatternNames

\* ------------------------------------------------------------ SpecIds
\* SpecIds: the identifier counters and the correlation table.  Besides the
\* fresh client, the behaviours start from clients that have been attached
\* and connected, have issued the number of subscribes and unsubscribes in
\* StartIds (each acknowledged, but possibly the very first subscribe), and
\* have not been disconnected.  A debug build cannot issue subscribe 32768,
\* so its counters start at 32767 at most.
InitIds ==
    \/ InitFresh
    \/ /\ overflow_checks \in BOOLEAN
       /\ \E sid \in StartIds, uid \in StartIds,
             pending \in {EmptyMap, [k \in {SubKey(0)} |-> "r0"]} :
             /\ overflow_checks => (~KeyOverflows(sid) /\ ~KeyOverflows(uid))
             /\ pending # EmptyMap => sid > 0
             /\ node = [NewNode EXCEPT !.socket = "s1", !.stream = "s1",
                                       !.curr_sub_id = sid,
                                       !.curr_unsub_id = uid,
                                       !.sub_map = pending]
       /\ poisoned = FALSE
       /\ timers = [s \in Sockets |-> None]
       /\ recvs = [s \in Sockets |-> IF s = "s1" THEN 1 ELSE 0]
       /\ out = << >>
       /\ calls = << >>
       /\ last = [op |-> "new", arg |-> NoArg, ret |-> "Ok", value |-> None,
                  tick |-> 0]
       /\ lock = None
       /\ pc = [t \in Callers |-> Idle]
       /\ hist = NoHist

\* wire identifiers the broker acknowledges
AckIds == {0, 32767, 32768, U16Max}

NextIds ==
    \/ \E r \in {None, "r1"} : Subscribe(<< >>, r)
    \/ Unsubscribe(<< >>, "r2")
    \/ SetStream("s1")
    \/ Disconnect
    \/ \E id \in AckIds : Recv("s1", [type |-> "Suback", pid |-> id], << >>)
    \/ \E id \in AckIds : Recv("s1", [type |-> "Unsuback", pid |-> id], << >>)

SpecIds == InitIds /\ [][NextIds]_vars

\* the wire identifier of the action the step sent or queued
EmittedId ==
    IF node.socket = None
    THEN node'.socket_handlers[Len(node'.socket_handlers)].curr_id
    ELSE out'[1].packet.pid
\* the wire identifier of the action the previous step sent or queued
PreviousId ==
    IF out = << >>
    THEN node.socket_handlers[Len(node.socket_handlers)].curr_id
    ELSE out[1].packet.pid

Succeeded(op) == last'.op = op /\ last'.ret = "Ok"

\* C9: a successful subscribe sends or queues its action with the current
\* value of curr_sub_id as wire identifier and advances that counter by one
\* modulo 65536, leaving curr_unsub_id alone; likewise unsubscribe with
\* curr_unsub_id.  Two successful subscribes (unsubscribes) in a row carry
\* different identifiers.
C9_IdsAdvance ==
    [][ /\ Succeeded("subscribe") =>
             /\ EmittedId = node.curr_sub_id
             /\ node'.curr_sub_id = (node.curr_sub_id + 1) % U16Mod
             /\ node'.curr_unsub_id = node.curr_unsub_id
             /\ (last.op = "subscribe" /\ last.ret = "Ok") => EmittedId # PreviousId
        /\ Succeeded("unsubscribe") =>
             /\ EmittedId = node.curr_unsub_id
             /\ node'.curr_unsub_id = (node.curr_unsub_id + 1) % U16Mod
             /\ node'.curr_sub_id = node.curr_sub_id
             /\ (last.op = "unsubscribe" /\ last.ret = "Ok") => EmittedId # PreviousId
      ]_vars

\* a subscribe was sent with identifier 65535 and the counter wrapped to 0
C9_Witness ==
    /\ last.op = "subscribe"
    /\ last.ret = "Ok"
    /\ out # << >>
    /\ out[1].packet.pid = U16Max
    /\ node.curr_sub_id = 0

\* C10: a subscribe with wire identifier id stores its completion at key
\* 2*id+1 and an unsubscribe at key 2*id, the key computed without loss, and
\* a Suback (Unsuback) with identifier id resolves the key 2*id+1 (2*id) and
\* no other.
C10_KeysWithoutLoss ==
    [][ /\ Succeeded("subscribe") =>
             /\ (2 * node.curr_sub_id + 1) \in DOMAIN node'.sub_map
             /\ node'.sub_map[2 * node.curr_sub_id + 1] = last'.arg.resp_func
        /\ Succeeded("unsubscribe") =>
             /\ (2 * node.curr_unsub_id) \in DOMAIN node'.sub_map
             /\ node'.sub_map[2 * node.curr_unsub_id] = last'.arg.resp_func
        /\ (Succeeded("recv") /\ last'.arg.packet.type = "Suback") =>
             (DOMAIN node.sub_map) \ (DOMAIN node'.sub_map)
                \subseteq {2 * last'.arg.packet.pid + 1}
        /\ (Succeeded("recv") /\ last'.arg.packet.type = "Unsuback") =>
             (DOMAIN node.sub_map) \ (DOMAIN node'.sub_map)
                \subseteq {2 * last'.arg.packet.pid}
      ]_vars

\* C11: every key of the correlation table stored by subscribe is odd and
\* every key stored by unsubscribe is even, at every counter value, the
\* wrapped ones included; a Suback removes odd keys only and invokes no
\* completion of an unsubscribe, an Unsuback removes even keys only and
\* invokes no completion of a subscribe.  (In SpecIds unsubscribe stores
\* "r2" and subscribe never does.)
StoredByUnsubscribe(func) == func = "r2"

C11_KeyParity ==
    [][ /\ \A k \in DOMAIN node'.sub_map :
              StoredByUnsubscribe(node'.sub_map[k]) <=> (k % 2 = 0)
        /\ (last'.op = "recv" /\ last'.arg.packet.type = "Suback") =>
             /\ \A k \in (DOMAIN node.sub_map) \ (DOMAIN node'.sub_map) : k % 2 = 1
             /\ \A i \in 1..Len(calls') : ~StoredByUnsubscribe(calls'[i].func)
             /\ \A k \in DOMAIN node.sub_map :
                   k % 2 = 0 => (k \in DOMAIN node'.sub_map
                                 /\ node'.sub_map[k] = node.sub_map[k])
        /\ (last'.op = "recv" /\ last'.arg.packet.type = "Unsuback") =>
             /\ \A k \in (DOMAIN node.sub_map) \ (DOMAIN node'.sub_map) : k % 2 = 0
             /\ \A i \in 1..Len(calls') : StoredByUnsubscribe(calls'[i].func)
             /\ \A k \in DOMAIN node.sub_map :
                   k % 2 = 1 => (k \in DOMAIN node'.sub_map
                                 /\ node'.sub_map[k] = node.sub_map[k])
      ]_vars

\* the Suback of subscribe 65535 ran its completion and left the completion
\* of unsubscribe 65535 in the table
C11_Witness ==
    /\ last.op = "recv"
    /\ last.arg.packet = [type |-> "Suback", pid |-> U16Max]
    /\ calls # << >>
    /\ UnsubKey(U16Max) \in DOMAIN node.sub_map

\* ------------------------------------------------------------ SpecAttrs
\* SpecAttrs: the attribute map of one client: attributes are added, read
\* and removed under two names, and the client is disconnected.
AttrNames == {"k", "j"}
AttrValues == {"v1", "v2"}

InitAttrs == InitFresh /\ overflow_checks = FALSE

NextAttrs ==
    \/ \E n \in AttrNames, v \in AttrValues : AddAttribute(n, v)
    \/ \E n \in AttrNames : RemoveAttribute(n)
    \/ \E n \in AttrNames : GetAttribute(n)
    \/ SetStream("s1")
    \/ Disconnect

SpecAttrs == InitAttrs /\ [][NextAttrs]_vars

\* C12: add_attribute with a name that is present leaves the attribute map
\* as it is; with an absent name it binds that name only; in both cases the
\* attributes under other names keep their values.  get_attribute returns
\* the bound value and changes nothing, so after add_attribute(k, v1) on an
\* absent k, a second add_attribute(k, v2) and a get_attribute(k) yield v1.
C12_FirstWriteWins ==
    [][ /\ last'.op = "add_attribute" =>
             LET k == last'.arg.name
             IN /\ k \in DOMAIN node.attributes =>
                     node'.attributes = node.attributes
                /\ k \notin DOMAIN node.attributes =>
                     node'.attributes[k] = last'.arg.value
                /\ DOMAIN node'.attributes = (DOMAIN node.attributes) \cup {k}
                /\ \A j \in (DOMAIN node.attributes) \ {k} :
                     node'.attributes[j] = node.attributes[j]
        /\ last'.op = "get_attribute" =>
             /\ node' = node
             /\ last'.value = IF last'.arg.name \in DOMAIN node.attributes
                              THEN node.attributes[last'.arg.name]
                              ELSE None
        /\ (last.op = "add_attribute" /\ last'.op = "add_attribute"
            /\ last'.arg.name = last.arg.name) =>
             node'.attributes = node.attributes
        /\ (last.op = "add_attribute" /\ last'.op = "get_attribute"
            /\ last'.arg.name = last.arg.name) =>
             last'.value = node.attributes[last.arg.name]
      ]_vars

\* an add_attribute with a second value for a bound name left the first
\* value in place, another name being bound as well
C12_Witness ==
    /\ last.op = "add_attribute"
    /\ last.arg.name \in DOMAIN node.attributes
    /\ node.attributes[last.arg.name] # last.arg.value
    /\ \E j \in DOMAIN node.attributes : j # last.arg.name

\* ------------------------------------------------------------ SpecKeepAlive
\* SpecKeepAlive: the keep-alive timer of one client: connect is called with
\* keep-alive 0 and with a non-zero keep-alive, before and after a transport
\* is attached, other actions are executed, transports are replaced, the
\* client is disconnected, and the timer services fire their pending timers.
KeepAlives == {0, 2}

InitKeepAlive == InitFresh /\ overflow_checks = FALSE

NextKeepAlive ==
    \/ \E s \in Sockets : SetStream(s)
    \/ \E k \in KeepAlives : Connect(k, None, None, "connected")
    \/ Subscribe(<< >>, None)
    \/ Unsubscribe(<< >>, None)
    \/ Publish(FALSE, 0, <<"a">>, "p1")
    \/ Disconnect
    \/ \E s \in Sockets : TimerFire(s)

SpecKeepAlive == InitKeepAlive /\ [][NextKeepAlive]_vars

\* the operations that hand an action to handle_slot
ActionOps == {"connect", "subscribe", "unsubscribe", "publish", "disconnect"}

NoTimerPending(t) == \A s \in Sockets : t[s] = None
NoPingreq(o) == \A i \in 1..Len(o) : o[i].packet.type # "PINGREQ"

\* C13: when set_stream returns on a client whose keep_alive is above 0, a
\* keep-alive timer is pending on the stream it attached.
C13_SetStreamArms ==
    [][ (last'.op = "set_stream" /\ node'.keep_alive > 0) =>
          timers'[node'.stream] # None ]_vars

\* C14: while keep_alive is 0 and no keep-alive timer is pending, no step
\* that leaves keep_alive at 0 schedules a timer or sends a PINGREQ; a new
\* client has keep_alive 0 and no timer, so a client whose keep_alive has
\* always been 0 never has a timer and never sends a PINGREQ.
C14_ZeroKeepAliveNeverArms ==
    [][ (node.keep_alive = 0 /\ node'.keep_alive = 0 /\ NoTimerPending(timers)) =>
          (NoTimerPending(timers') /\ NoPingreq(out')) ]_vars

\* an action was executed on an attached client with keep_alive 0, which
\* called ping, and no timer is pending
C14_Witness ==
    /\ last.op \in ActionOps
    /\ node.socket # None
    /\ out # << >>
    /\ node.keep_alive = 0
    /\ NoTimerPending(timers)

C16_KeepAliveIndependent ==
    [][ /\ (last'.op \in ActionOps /\ node.socket # None) => timers' = timers
        /\ Cardinality({s \in Sockets : timers'[s] # None}) <= 1 ]_vars

\* C16, amended: an action that is executed on an attached transport while
\* keep_alive is non-zero schedules the keep-alive timer of the current
\* stream again, with the current socket (handle_slot calls ping after the
\* action); with keep_alive 0 it leaves the timers alone.
C16_ActionsRearm ==
    [][ (last'.op \in ActionOps /\ last'.ret = "Ok" /\ node.socket # None) =>
          IF node'.keep_alive > 0
          THEN /\ timers'[node.stream] = node.socket
               /\ \A s \in Sockets \ {node.stream} : timers'[s] = timers[s]
          ELSE timers' = timers ]_vars

\* a publish on a second transport has scheduled the timer of that stream
\* while the timer of the first stream is still pending
C16_Witness ==
    /\ last.op = "publish"
    /\ out # << >>
    /\ node.stream = "s2"
    /\ timers["s2"] = "s2"
    /\ timers["s1"] = "s1"

\* ------------------------------------------------------------ more claims under SpecDispatch
ConnackDelivered(l) == l.op = "recv" /\ l.arg.packet.type = "Connack"

\* C17: a Connack invokes the pending connect callback, if there is one,
\* exactly once, with Ok exactly when the return code is Accepted and with an
\* error otherwise, and clears it; without a pending callback it invokes
\* nothing, so a second Connack with no connect in between invokes nothing.
C17_ConnackResolvesOnce ==
    [][ ConnackDelivered(last') =>
          /\ node'.connect_func = None
          /\ calls' = IF node.connect_func = None THEN << >>
                      ELSE << [func |-> node.connect_func,
                               arg |-> IF last'.arg.packet.code = "Accepted"
                                       THEN "Ok" ELSE "Err"] >>
          /\ ConnackDelivered(last) => calls' = << >> ]_vars

\* a refusing Connack has invoked the connect callback with an error and
\* cleared it
C17_Witness ==
    /\ ConnackDelivered(last)
    /\ last.arg.packet.code = "NotAuthorized"
    /\ calls = << [func |-> "connected", arg |-> "Err"] >>
    /\ node.connect_func = None

\* a topic name holds a wildcard token
HasWildcardToken(name) == \E i \in 1..Len(name) : name[i] = "+" \/ name[i] = "#"

\* C20: every key of topic_patterns holds a wildcard token and no key of
\* topics does, so the key sets are disjoint; set_topic_handler and
\* remove_topic_handler with a name that does not parse return an error and
\* change neither map.
C20_RegistryPartition ==
    [][ /\ \A k \in DOMAIN node'.topic_patterns : HasWildcardToken(k)
        /\ \A k \in DOMAIN node'.topics : ~HasWildcardToken(k)
        /\ (DOMAIN node'.topic_patterns) \cap (DOMAIN node'.topics) = {}
        /\ (last'.op \in {"set_topic_handler", "remove_topic_handler"}
            /\ last'.arg.name \in BadNames) =>
             /\ last'.ret = "Err"
             /\ node'.topics = node.topics
             /\ node'.topic_patterns = node.topic_patterns ]_vars

\* a name that does not parse was refused while both maps held handlers
C20_Witness ==
    /\ last.op = "set_topic_handler"
    /\ last.arg.name \in BadNames
    /\ last.ret = "Err"
    /\ DOMAIN node.topics # {}
    /\ DOMAIN node.topic_patterns # {}

\* ------------------------------------------------------------ more claims under SpecIds
\* the step delivered a Suback or Unsuback whose correlation key, as the
\* handler computes it, is not a key of the table
UnknownAckDelivered ==
    /\ last'.op = "recv"
    /\ \/ /\ last'.arg.packet.type = "Suback"
          /\ SubKey(last'.arg.packet.pid) \notin DOMAIN node.sub_map
       \/ /\ last'.arg.packet.type = "Unsuback"
          /\ UnsubKey(last'.arg.packet.pid) \notin DOMAIN node.sub_map

\* C18: a Suback or Unsuback whose correlation key is not in the table
\* invokes no callback, changes no client state, and is followed by the next
\* receive request on the stream.
C18_UnknownAckDropped ==
    [][ UnknownAckDelivered =>
          /\ calls' = << >>
          /\ node' = node
          /\ poisoned' = poisoned
          /\ last'.ret = "Ok"
          /\ recvs' = recvs ]_vars

\* ------------------------------------------------------------ more claims under Spec
\* the topics of the SUBSCRIBE action the step sent or queued
EmittedTopics ==
    IF node.socket = None
    THEN node'.socket_handlers[Len(node'.socket_handlers)].topics
    ELSE out'[1].packet.topics

\* C19: the SUBSCRIBE action of a successful subscribe carries every
\* requested topic name, in order, each with QoS 0 (at most once).
C19_SubscribeQosDowngraded ==
    [][ Succeeded("subscribe") =>
          /\ Len(EmittedTopics) = Len(last'.arg.topics)
          /\ \A i \in 1..Len(EmittedTopics) :
                /\ EmittedTopics[i][1] = last'.arg.topics[i][1]
                /\ EmittedTopics[i][2] = 0 ]_vars

\* ------------------------------------------------------------ the receive loop
\* C22: at most one receive request is outstanding on a transport at any
\* time, whatever the operations called, connect more than once included.
C22_OneReceiveOutstanding ==
    \A s \in Sockets : recvs[s] <= 1

\* C23: the receive loop ends with a receive error and with disconnect:
\* after an error result was handed to the packet handler the loop is not
\* re-armed, and after a disconnect no receive request is outstanding.
C23_LoopEndsOnErrorOrDisconnect ==
    [][ /\ (last'.op = "recv" /\ last'.arg.packet.type = "Err") =>
             recvs'[last'.arg.stream] = recvs[last'.arg.stream] - 1
        /\ last'.op = "disconnect" =>
             \A s \in Sockets : recvs'[s] = 0 ]_vars

\* the packet types handle_recv dispatches
AcceptedTypes == {"Connack", "Suback", "Unsuback", "Publish", "Pingresp"}

\* C24: a packet of another type than the five accepted ones changes no
\* client state, invokes no callback, and the loop is not re-armed after it;
\* a packet of an accepted type is dispatched and the loop is re-armed.
C24_InvalidPacketIsFatal ==
    [][ last'.op = "recv" =>
          IF last'.arg.packet.type \in AcceptedTypes
          THEN /\ last'.ret = "Ok"
               /\ poisoned' = poisoned
               /\ recvs' = recvs
          ELSE last'.arg.packet.type # "Err" =>
                 /\ node' = node
                 /\ poisoned' = poisoned
                 /\ calls' = << >>
                 /\ recvs'[last'.arg.stream] = recvs[last'.arg.stream] - 1 ]_vars

\* ------------------------------------------------------------ disconnect and set_stream
\* C25: a disconnect on a client without a transport leaves the queue empty,
\* its own DISCONNECT action discarded with the rest, and sends nothing; the
\* set_stream that follows it sends nothing on the new transport.
C25_DisconnectDiscardsQueue ==
    [][ /\ (last'.op = "disconnect" /\ node.socket = None) =>
             /\ node'.socket_handlers = << >>
             /\ out' = << >>
        /\ (last.op = "disconnect" /\ node.socket = None
            /\ last'.op = "set_stream") =>
             out' = << >> ]_vars

\* a set_stream right after a disconnect found nothing to send, on a client
\* that had a connect in its queue before the disconnect (keep_alive is set)
C25_Witness ==
    /\ last.op = "set_stream"
    /\ Cleared(node)
    /\ node.keep_alive > 0
    /\ out = << >>
    /\ \A s \in Sockets : recvs[s] = 0

\* C26: a set_stream on a client that has a transport, no disconnect having
\* run since it was attached, leaves the transport as it is.
C26_TransportNotReplaced ==
    [][ (last.op = "set_stream" /\ last'.op = "set_stream") =>
          /\ node'.socket = node.socket
          /\ node'.stream = node.stream ]_vars

\* ------------------------------------------------------------ lock sections
\* The calls of the client take the Mutex more than once.  What a call does
\* between lock() and the drop of the guard is one step of its thread; the
\* operators below are these sections, for calls made by concurrent threads.

\* connect, first section: the callbacks and keep_alive are stored
connect_store(w, keep_alive, close_func, connect_func) ==
    [w EXCEPT !.node.close_func = close_func,
              !.node.connect_func = connect_func,
              !.node.keep_alive = keep_alive]

\* subscribe, first section: parameter check, sub_map.insert, counter
subscribe_reserve(w, topics, resp_func) ==
    IF ~TopicsHaveHandlers(w.node, TopicNames(topics))
    THEN [w EXCEPT !.ret = "Err"]
    ELSE IF w.overflow_checks /\ KeyOverflows(w.node.curr_sub_id)
    THEN PanicLocked(w)
    ELSE [w EXCEPT
            !.node.sub_map = MapInsert(@, SubKey(w.node.curr_sub_id), resp_func),
            !.node.curr_sub_id = NextId(@)]

\* unsubscribe, first section
unsubscribe_reserve(w, topics, resp_func) ==
    IF ~TopicsHaveHandlers(w.node, topics)
    THEN [w EXCEPT !.ret = "Err"]
    ELSE IF w.overflow_checks /\ KeyOverflows(w.node.curr_unsub_id)
    THEN PanicLocked(w)
    ELSE [w EXCEPT
            !.node.sub_map = MapInsert(@, UnsubKey(w.node.curr_unsub_id), resp_func),
            !.node.curr_unsub_id = NextId(@)]

\* a handle_slot section that queues the action whether or not there is a
\* socket
slot_locked_always_queues(w, func) ==
    [w EXCEPT !.node.socket_handlers = Append(@, func)]

\* handle_slot, its section: the action is queued, or run on the socket
slot_locked(w, func) ==
    IF w.node.socket = None
    THEN [w EXCEPT !.node.socket_handlers = Append(@, func)]
    ELSE CallFunc(w, func, w.node.socket, w.node.stream)

\* ping after its first section (keep_alive and socket were read and the
\* lock released): get_timers reads node.stream, set_timeout arms
ping_arm(w, socket) ==
    set_timeout(w, w.node.stream, socket)

\* disconnect, last section: the data structures are cleared
disconnect_reset(w) ==
    [w EXCEPT !.node.connect_func = None,
              !.node.close_func = None,
              !.node.curr_sub_id = 0,
              !.node.curr_unsub_id = 0,
              !.node.sub_map = EmptyMap,
              !.node.attributes = EmptyMap,
              !.node.topics = EmptyMap,
              !.node.topic_patterns = EmptyMap,
              !.node.socket_handlers = << >>]

\* a set_stream that stores the socket and leaves the queue as it is
set_stream_no_drain(w, socket, stream) ==
    [w EXCEPT !.node.socket = socket, !.node.stream = stream]

\* set_stream is one section
set_stream_locked(w, socket, stream) ==
    set_stream(w, socket, stream)

\* ------------------------------------------------------------ SpecThreads
\* SpecThreads: three threads call into one client concurrently, one call
\* each: set_stream, connect, subscribe, unsubscribe, publish or disconnect.
\* A step is one lock section of one thread; between its sections a thread
\* can be overtaken by the others.
Packets(o) == [i \in 1..Len(o) |-> o[i].packet]

\* the state a section of thread t leaves behind; p is the thread's new
\* position, h the new history
ThStep(t, w, p, h, op) ==
    /\ node' = w.node
    /\ poisoned' = w.poisoned
    /\ timers' = w.timers
    /\ recvs' = w.recvs
    /\ out' = w.out
    /\ calls' = w.calls
    /\ last' = [op |-> op, arg |-> [thread |-> t], ret |-> w.ret,
                value |-> w.value, tick |-> 1 - last.tick]
    /\ pc' = [pc EXCEPT ![t] = p]
    /\ hist' = h
    /\ UNCHANGED <<overflow_checks, lock>>

\* a section can start: the Mutex is free and not poisoned
CanLock == ~poisoned /\ lock = None

At(t, at) == [pc[t] EXCEPT !.at = at]
\* where a call continues after its handle_slot section, which found the
\* socket attached or not: ping follows an executed action only; a call
\* whose action was queued has returned ("queued"), but for disconnect,
\* which goes on to its reset
AfterSlot(t, op, attached) ==
    IF attached THEN "ping" ELSE IF op = "disconnect" THEN "reset" ELSE "queued"
AfterPing(op) == IF op = "disconnect" THEN "reset" ELSE "done"

\* the handle_slot section of thread t with action func, in world w
ThSlotStep(t, w, op, func) ==
    LET w1 == slot_locked(w, func)
    IN ThStep(t, w1,
              [at |-> AfterSlot(t, op, w.node.socket # None), op |-> op,
               func |-> func, socket |-> None],
              [hist EXCEPT !.accepted = Append(@, ExpectedPacket(func)),
                           !.wire = @ \o Packets(w1.out)],
              "handle_slot")

ThSetStream(t, s) ==
    /\ CanLock /\ pc[t].at = "idle"
    /\ LET w1 == set_stream_locked(World, s, s)
       IN ThStep(t, w1, [Idle EXCEPT !.at = "done", !.op = "set_stream"],
                 [hist EXCEPT !.wire = @ \o Packets(w1.out)], "set_stream")

ThConnect(t, keep_alive, will, close_func, connect_func) ==
    /\ CanLock /\ pc[t].at = "idle"
    /\ ThStep(t, connect_store(World, keep_alive, close_func, connect_func),
              [at |-> "slot", op |-> "connect",
               func |-> [kind |-> "connect", keep_alive |-> keep_alive,
                         will |-> will],
               socket |-> None],
              hist, "connect")

ThSubscribe(t, topics, resp_func) ==
    /\ CanLock /\ pc[t].at = "idle"
    /\ LET w1 == subscribe_reserve(World, topics, resp_func)
           curr_id == node.curr_sub_id
       IN IF w1.ret = "Ok"
          THEN ThStep(t, w1,
                      [at |-> "slot", op |-> "subscribe",
                       func |-> [kind |-> "subscribe", curr_id |-> curr_id,
                                 topics |-> topics],
                       socket |-> None],
                      [hist EXCEPT !.reserved = Append(@, curr_id)], "subscribe")
          ELSE ThStep(t, w1, [Idle EXCEPT !.at = "done", !.op = "subscribe"],
                      hist, "subscribe")

ThUnsubscribe(t, topics, resp_func) ==
    /\ CanLock /\ pc[t].at = "idle"
    /\ LET w1 == unsubscribe_reserve(World, topics, resp_func)
           curr_id == node.curr_unsub_id
       IN IF w1.ret = "Ok"
          THEN ThStep(t, w1,
                      [at |-> "slot", op |-> "unsubscribe",
                       func |-> [kind |-> "unsubscribe", curr_id |-> curr_id,
                                 topics |-> topics],
                       socket |-> None],
                      hist, "unsubscribe")
          ELSE ThStep(t, w1, [Idle EXCEPT !.at = "done", !.op = "unsubscribe"],
                      hist, "unsubscribe")

\* connect, subscribe and unsubscribe go on to handle_slot
ThSlot(t) ==
    /\ CanLock /\ pc[t].at = "slot"
    /\ ThSlotStep(t, World, pc[t].op, pc[t].func)

\* publish checks its topic without the lock and calls handle_slot
ThPublish(t, retain, qos, topic, payload) ==
    /\ CanLock /\ pc[t].at = "idle"
    /\ LET r == is_topic_contains_wildcards(topic)
       IN IF ~r.ok \/ r.wildcards
          THEN ThStep(t, [World EXCEPT !.ret = "Err"],
                      [Idle EXCEPT !.at = "done", !.op = "publish"], hist,
                      "publish")
          ELSE ThSlotStep(t, World, "publish",
                          [kind |-> "publish", retain |-> retain,
                           topic |-> topic, payload |-> payload])

\* disconnect starts with handle_slot
ThDisconnect(t) ==
    /\ CanLock /\ pc[t].at = "idle"
    /\ ThSlotStep(t, World, "disconnect", [kind |-> "disconnect"])

\* ping, first section: keep_alive and socket are read
ThPing(t) ==
    /\ CanLock /\ pc[t].at = "ping"
    /\ IF node.keep_alive > 0
       THEN ThStep(t, World, [pc[t] EXCEPT !.at = "arm", !.socket = node.socket],
                   hist, "ping")
       ELSE ThStep(t, World, At(t, AfterPing(pc[t].op)), hist, "ping")

\* ping, the rest: get_timers and set_timeout
ThArm(t) ==
    /\ CanLock /\ pc[t].at = "arm"
    /\ ThStep(t, ping_arm(World, pc[t].socket), At(t, AfterPing(pc[t].op)),
              hist, "set_timeout")

\* disconnect, last section
ThReset(t) ==
    /\ CanLock /\ pc[t].at = "reset"
    /\ ThStep(t, disconnect_reset(World), At(t, "done"), hist, "reset")

InitThreads == InitFresh /\ overflow_checks = FALSE

NextThreads ==
    \E t \in Callers :
       \/ ThSetStream(t, "s1")
       \/ ThConnect(t, 2, None, None, "connected")
       \/ ThSubscribe(t, << >>, "r1")
       \/ ThUnsubscribe(t, << >>, "r2")
       \/ ThSlot(t)
       \/ ThPublish(t, FALSE, 0, <<"a">>, "p1")
       \/ ThDisconnect(t)
       \/ ThPing(t)
       \/ ThArm(t)
       \/ ThReset(t)

SpecThreads == InitThreads /\ [][NextThreads]_vars

\* ------------------------------------------------------------ claims under SpecThreads
QueuePackets(q) == [i \in 1..Len(q) |-> ExpectedPacket(q[i])]
NoDisconnect == \A t \in Callers : pc[t].op # "disconnect"

\* C27: in every interleaving of set_stream with connect, subscribe,
\* unsubscribe and publish calls of other threads, and no disconnect, the
\* packets on the transport followed by those of the actions still queued
\* are the accepted actions in the order handle_slot accepted them, and a
\* client with a transport has nothing left in its queue.
C27_AcceptedOrderIsWireOrder ==
    NoDisconnect =>
      /\ hist.accepted = hist.wire \o QueuePackets(node.socket_handlers)
      /\ node.socket # None => node.socket_handlers = << >>

\* one call was queued and drained by set_stream, and another has just run
\* its action on the socket at once
C27_Witness ==
    /\ NoDisconnect
    /\ node.socket # None
    /\ \E t, u \in Callers : pc[t].at = "queued" /\ pc[u].at = "ping"
    /\ Len(hist.wire) = 2
    /\ hist.accepted = hist.wire

\* C28: a client that has a transport has an empty queue of pending
\* actions, in every state in which no thread is inside a lock section,
\* disconnects included.
C28_AttachedImpliesQueueEmpty ==
    lock = None => (node.socket # None => node.socket_handlers = << >>)

\* a disconnect has run to its end, the client has a transport, and the
\* publish of another thread was the last action to reach it
C28_Witness ==
    /\ lock = None
    /\ node.socket # None
    /\ node.socket_handlers = << >>
    /\ \E t, u \in Callers :
          /\ pc[t].op = "disconnect" /\ pc[t].at = "done"
          /\ pc[u].op = "publish" /\ pc[u].at = "done"
    /\ Len(hist.wire) >= 2
    /\ hist.wire[Len(hist.wire)].type = "PUBLISH"

SubscribePids(packets) ==
    LET subs == SelectSeq(packets, LAMBDA p : p.type = "SUBSCRIBE")
    IN [i \in 1..Len(subs) |-> subs[i].pid]

\* C29: the SUBSCRIBE actions are accepted by handle_slot in the order in
\* which subscribe reserved their identifiers.
C29_SubscribeOrderIsReservationOrder ==
    LET pids == SubscribePids(hist.accepted)
    IN /\ Len(pids) <= Len(hist.reserved)
       /\ pids = SubSeq(hist.reserved, 1, Len(pids))

\* thread t has sent the DISCONNECT of its disconnect and not yet finished
\* the reset
Resetting(t) ==
    /\ pc[t].op = "disconnect"
    /\ pc[t].at \in {"ping", "arm", "reset"}
    /\ \E i \in 1..Len(hist.wire) : hist.wire[i].type = "DISCONNECT"

\* C30: between the send of a disconnect's DISCONNECT and the end of its
\* reset, no call of another thread takes a step.
C30_DisconnectAtomic ==
    [][ \A t \in Callers :
          Resetting(t) => \A u \in Callers \ {t} : pc'[u] = pc[u] ]_vars

\* ------------------------------------------------------------ SpecReentrant
\* SpecReentrant: some of the callbacks handed to the client call subscribe
\* on the same client from their body, and the broker delivers the packets
\* that make the dispatcher invoke them.
Reentrant == {"connected_re", "r_re", "f_re", "g_re"}

\* the first invocation in cs of a callback that calls back into the client,
\* 0 if there is none
FirstReentrant(cs) ==
    IF \E i \in 1..Len(cs) : cs[i].func \in Reentrant
    THEN CHOOSE i \in 1..Len(cs) :
            /\ cs[i].func \in Reentrant
            /\ \A j \in 1..(i - 1) : cs[j].func \notin Reentrant
    ELSE 0

\* a dispatcher that drops its guard before it invokes a callback
released_in_callbacks == None

\* recv_connect_ack, recv_sub_ack, recv_unsub_ack and recv_publish invoke the
\* callbacks inside the scope of their MutexGuard: the receive thread has
\* the Mutex while a callback runs
held_in_callbacks == "rx"

\* handle_recv on the receive thread.  A dispatch that invokes no re-entrant
\* callback is one step, as in Recv.  Otherwise the step ends inside the
\* first re-entrant callback: what the dispatcher did before the invocation
\* is done (connect_func.take(), sub_map.remove()), the callbacks after it
\* are not invoked and the receive request is not issued.
RecvLocked(stream, packet, order) ==
    /\ ~poisoned
    /\ lock = None
    /\ recvs[stream] > 0
    /\ LET w0 == [World EXCEPT !.recvs[stream] = @ - 1]
           w1 == IF packet.type = "Err" THEN w0 ELSE Dispatch(w0, packet, order)
           i == FirstReentrant(w1.calls)
       IN IF i = 0
          THEN Recv(stream, packet, order)
          ELSE /\ node' = w1.node
               /\ poisoned' = poisoned
               /\ timers' = timers
               /\ recvs' = w0.recvs
               /\ out' = << >>
               /\ calls' = SubSeq(w1.calls, 1, i)
               /\ lock' = held_in_callbacks
               /\ last' = [op |-> "recv",
                           arg |-> [stream |-> stream, packet |-> packet],
                           ret |-> "callback", value |-> None,
                           tick |-> 1 - last.tick]
               /\ UNCHANGED <<overflow_checks, pc, hist>>

\* the callback calls subscribe, which calls lock() on the Mutex its own
\* thread holds.  std::sync::Mutex::lock leaves that case unspecified but
\* for one thing, that the call does not return: it blocks for ever, or it
\* panics, and the unwinding drops the dispatcher's guard and poisons the
\* Mutex.
CallbackSubscribe(outcome) ==
    /\ lock = "rx"
    /\ last.ret = "callback"
    /\ lock' = IF outcome = "deadlock" THEN lock ELSE None
    /\ poisoned' = (outcome = "panic")
    /\ out' = << >>
    /\ calls' = << >>
    /\ last' = [last EXCEPT !.ret = outcome, !.tick = 1 - last.tick]
    /\ UNCHANGED <<node, overflow_checks, timers, recvs, pc, hist>>

ReentrantPackets ==
    { [type |-> "Connack", code |-> "Accepted"],
      [type |-> "Suback", pid |-> 0],
      [type |-> "Unsuback", pid |-> 0],
      [type |-> "Publish", topic_name |-> <<"a">>, payload |-> "p1"],
      [type |-> "Publish", topic_name |-> <<"b">>, payload |-> "p1"] }

InitReentrant == InitFresh /\ overflow_checks = FALSE

NextReentrant ==
    \/ SetStream("s1")
    \/ \E c \in {"connected", "connected_re"} : Connect(0, None, None, c)
    \/ \E h \in {"f", "f_re"} : SetTopicHandler(<<"a">>, h)
    \/ SetTopicHandler(<<"+">>, "g_re")
    \/ \E r \in {"r1", "r_re"} : Subscribe(<< >>, r)
    \/ Unsubscribe(<< >>, "r_re")
    \/ \E p \in ReentrantPackets, o \in Orders(DOMAIN node.topic_patterns) :
          RecvLocked("s1", p, o)
    \/ \E outcome \in {"deadlock", "panic"} : CallbackSubscribe(outcome)

SpecReentrant == InitReentrant /\ [][NextReentrant]_vars

\* the step invoked a callback that calls back into the client
ReentrantInvoked ==
    /\ last'.op = "recv"
    /\ \E i \in 1..Len(calls') : calls'[i].func \in Reentrant

\* C21: a dispatch that invokes a callback which calls subscribe on the same
\* client has the Mutex while the callback runs, whether the callback is a
\* topic handler, a subscribe or unsubscribe completion or the connect
\* callback; the callback does not return: from then on the Mutex is held
\* by the blocked receive thread or poisoned, no receive request is issued
\* and the client's state stays as it was at the invocation.
C21_ReentrantCallbackNeverReturns ==
    [][ /\ ReentrantInvoked => (lock' = "rx" /\ last'.ret = "callback")
        /\ lock = "rx" =>
              /\ lock' = "rx" \/ poisoned'
              /\ node' = node
              /\ recvs' = recvs
              /\ last'.ret \in {"deadlock", "panic"} ]_vars

\* the receive thread is blocked in the lock() of a subscribe called by a
\* publish handler, with the Mutex held
C21_Witness ==
    /\ lock = "rx"
    /\ ~poisoned
    /\ last.op = "recv"
    /\ last.ret = "deadlock"
    /\ last.arg.packet.type = "Publish"

====
